---- MODULE Spec2Model ----
(***************************************************************************)
(* Model of gotrader's Instrument (instrument.go): the trade registry, the *)
(* time-ordered index of trade identifiers, the long and short Positions,  *)
(* the live ask/bid cells and the derived aggregates.                      *)
(*                                                                         *)
(* Trades are heap objects: the registry maps an identifier to a pointer   *)
(* (a serial number), the Positions hold sets of pointers, and tradeObjs   *)
(* is the store of the objects still reachable.  Position, Trade and       *)
(* sortedTrades live in files of the package other than instrument.go;     *)
(* their operators below follow the design document.  float64 amounts are  *)
(* integers here; the currency conversion is left out (ccyConversion is    *)
(* never set by newInstrument), as is a trade's openTime, which no         *)
(* operation of the instrument reads.                                      *)
(***************************************************************************)
EXTENDS Integers, Sequences, FiniteSets, TLC

\* ------------------------------------------------------------ bounds
MaxLive == 2            \* Trade objects alive at once
MaxIndexLive == 3       \* the same, where only the trade index is exercised
MaxThreadLive == 1      \* the same, where threads interleave
MaxFee == 1             \* fee units the fee engine charges in all
MaxRecomputes == 2      \* recomputes the concurrent recompute thread starts

Ids == {"A", "B"}
ThreadIds == {"A"}
ThreadOrders == {[side |-> "Long", units |-> 100, openPrice |-> 1]}
IndexIds == {"A", "B", "C"}
Orders == {[side |-> "Long", units |-> 100, openPrice |-> 1],
           [side |-> "Short", units |-> 50, openPrice |-> 2]}
Ticks == {[Ask |-> 3, Bid |-> 2]}
\* EUR/USD in units of 0.0001: 1000 units at 1.1000, ticks 1.1050/1.1040
\* and 1.0990/1.0980
PriceOrders == {[side |-> "Long", units |-> 1000, openPrice |-> 11000],
                [side |-> "Short", units |-> 1000, openPrice |-> 11000]}
PriceTicks == {[Ask |-> 11050, Bid |-> 11040], [Ask |-> 10990, Bid |-> 10980]}
FeedTicks == {[Ask |-> 3, Bid |-> 2], [Ask |-> 5, Bid |-> 4], [Ask |-> 7, Bid |-> 6]}

\* ------------------------------------------------------------ constants
FullHedge == 0
NoHedge == 1
HalfHedge == 2
HedgeValues == {FullHedge, NoHedge, HalfHedge, 3}

Long == "Long"
Short == "Short"

Leverage == 50

VARIABLES
    trades,                     \* registry: identifier -> pointer to Trade
    tradesTimeOrder,            \* ordered index: sequence of identifiers
    tradeObjs,                  \* the Trade objects, by pointer
    longPosition,
    shortPosition,
    unrealizedNetProfit,
    unrealizedEffectiveProfit,
    marginUsed,
    chargedFees,
    ask,
    bid,
    hedgeType,
    openLog,                    \* pointers of the registry's trades, in open order
    ret,                        \* what the last call returned or logged
    pre,                        \* state saved at an openTrade of a fresh id
    pcCalc,                     \* position of the recompute thread
    pcRead,                     \* position of the reader thread
    seen,                       \* what the reader has read so far
    published,                  \* triples written by completed recomputes
    nCalc,                      \* recomputes started by the recompute thread
    pcFeed,                     \* position of the price-feed thread in updatePrice
    feedTick,                   \* the tick the price-feed thread last took
    stored,                     \* the values ever stored in the ask and bid cells
    pcQuote,                    \* position of the thread reading Ask() then Bid()
    quote,                      \* what that thread has read
    pcOpen,                     \* position of the execution thread in openTrade
    opening,                    \* the arguments and the Trade of that openTrade
    got,                        \* the Trade a concurrent reader obtained
    pcProd,                     \* position of the goroutine started by Trades()
    pending,                    \* registry entries the goroutine has yet to send
    wanted,                     \* registry entries when Trades() was called
    chClosed,                   \* whether the channel of Trades() is closed
    consumer,                   \* what the receiver of that channel is doing
    received                    \* the Trades the receiver has received

instr == <<trades, tradesTimeOrder, tradeObjs, longPosition, shortPosition,
           unrealizedNetProfit, unrealizedEffectiveProfit, marginUsed,
           chargedFees, ask, bid, hedgeType, openLog>>
conc == <<pcCalc, pcRead, seen, published, nCalc>>
feedv == <<pcFeed, feedTick, stored, pcQuote, quote>>
openv == <<pcOpen, opening, got>>
prodv == <<pcProd, pending, wanted, chClosed, consumer, received>>
thr == <<feedv, openv, prodv>>
vars == <<instr, ret, pre, conc, thr>>

\* ------------------------------------------------------------ helpers
Min(a, b) == IF a < b THEN a ELSE b

Abs(x) == IF x < 0 THEN -x ELSE x

Range(s) == {s[k] : k \in 1..Len(s)}

Reverse(s) == [k \in 1..Len(s) |-> s[Len(s) + 1 - k]]

RECURSIVE SumOver(_, _)
SumOver(S, f) ==
    IF S = {} THEN 0
    ELSE LET x == CHOOSE y \in S : TRUE
         IN f[x] + SumOver(S \ {x}, f)

Result(op, arg, val) == [op |-> op, arg |-> arg, val |-> val]

NoResult == Result("", "", "")

\* logrus.Warn(i.name + ": trying to close unexisting trade")
Warning == "trying to close unexisting trade"

NoPre == [phase |-> "none"]

\* ------------------------------------------------------------ hashmap
MapSet(m, k, v) == [x \in DOMAIN m \cup {k} |-> IF x = k THEN v ELSE m[x]]

MapDel(m, k) == [x \in DOMAIN m \ {k} |-> m[x]]

\* ------------------------------------------------------------ sortedTrades
\* The ordered index as the design document gives it: append at the tail,
\* delete "removes the identifier wherever it resides" (afterwards the
\* identifier is not in the sequence, the survivors keep their order), get
\* answers an out-of-range index with the empty string, and the two
\* traversals yield up to n entries from the earliest or the latest.
newSortedTrades == << >>

SortedAppend(s, id) == Append(s, id)

SortedDelete(s, id) == SelectSeq(s, LAMBDA x : x # id)

SortedGet(s, index) == IF index >= 0 /\ index < Len(s) THEN s[index + 1] ELSE ""

AscendIter(s, n) == SubSeq(s, 1, Min(n, Len(s)))

DescendIter(s, n) == SubSeq(Reverse(s), 1, Min(n, Len(s)))

\* ------------------------------------------------------------ Trade
\* trade.leverage is bound to the instrument's leverage cell, which no method
\* of the instrument writes after construction: Leverage stands for it.
\* A Trade leaves newTrade with its leverage and currentPrice pointers nil;
\* openTrade binds them afterwards.
Nil == "nil"

newTrade(id, side, units, openPrice) ==
    [id |-> id, side |-> side, units |-> units, openPrice |-> openPrice,
     fees |-> 0, leverage |-> Nil, currentPrice |-> Nil]

\* trade.currentPrice is a pointer to the instrument's ask or bid cell: the
\* price the Trade sees is what that cell holds now
CurrentPrice(t, a, b) == IF t.currentPrice = "ask" THEN a ELSE b

TradeUnrealized(t, a, b) ==
    IF t.side = Long THEN (CurrentPrice(t, a, b) - t.openPrice) * t.units
    ELSE (t.openPrice - CurrentPrice(t, a, b)) * t.units

TradeMargin(t, a, b) == (Abs(t.units) * CurrentPrice(t, a, b)) \div Leverage

\* ------------------------------------------------------------ Position
\* A Position holds the trades of its side and sums, on each recompute, the
\* unrealized profit, the fees and the margin of the trades it holds.
newPosition(side) ==
    [side |-> side, trades |-> {}, unrealizedNetProfit |-> 0,
     unrealizedEffectiveProfit |-> 0, chargedFees |-> 0, marginUsed |-> 0]

PositionOpenTrade(p, t) == [p EXCEPT !.trades = @ \cup {t}]

PositionCloseTrade(p, t) == [p EXCEPT !.trades = @ \ {t}]

PositionCalculateUnrealized(p, objs, a, b) ==
    LET net == SumOver(p.trades, [t \in p.trades |-> TradeUnrealized(objs[t], a, b)])
        fees == SumOver(p.trades, [t \in p.trades |-> objs[t].fees])
    IN [p EXCEPT !.unrealizedNetProfit = net,
                 !.chargedFees = fees,
                 !.unrealizedEffectiveProfit = net + fees]

PositionCalculateMarginUsed(p, objs, a, b) ==
    [p EXCEPT !.marginUsed =
        SumOver(p.trades, [t \in p.trades |-> TradeMargin(objs[t], a, b)])]

\* ------------------------------------------------------------ Instrument
NoTick == [Ask |-> 0, Bid |-> 0]

NoQuote == [ask |-> Nil, bid |-> Nil]

NoOpening == [id |-> "", side |-> "", trade |-> 0]

NoTrade == [trade |-> 0]

\* no thread has started anything; the cells hold newInstrument's 0.0
InitThreads ==
    /\ pcFeed = "idle"
    /\ feedTick = NoTick
    /\ stored = [ask |-> {0}, bid |-> {0}]
    /\ pcQuote = "idle"
    /\ quote = NoQuote
    /\ pcOpen = "idle"
    /\ opening = NoOpening
    /\ got = NoTrade
    /\ pcProd = "idle"
    /\ pending = {}
    /\ wanted = {}
    /\ chClosed = FALSE
    /\ consumer = "idle"
    /\ received = {}

Init ==
    /\ trades = << >>
    /\ tradesTimeOrder = newSortedTrades
    /\ tradeObjs = << >>
    /\ longPosition = newPosition(Long)
    /\ shortPosition = newPosition(Short)
    /\ unrealizedNetProfit = 0
    /\ unrealizedEffectiveProfit = 0
    /\ marginUsed = 0
    /\ chargedFees = 0
    /\ ask = 0
    /\ bid = 0
    /\ hedgeType = FullHedge
    /\ openLog = << >>
    /\ ret = NoResult
    /\ pre = NoPre
    /\ pcCalc = "idle"
    /\ pcRead = "idle"
    /\ seen = << >>
    /\ published = {<<0, 0, 0>>}
    /\ nCalc = 0
    /\ InitThreads

\* the objects a registry entry or a Position still points to
Reachable(reg, lp, sp) == {reg[k] : k \in DOMAIN reg} \cup lp.trades \cup sp.trades

Collect(objs, reg, lp, sp) == [t \in DOMAIN objs \cap Reachable(reg, lp, sp) |-> objs[t]]

Snapshot(id) ==
    [phase |-> "opened", id |-> id, trades |-> trades,
     tradesTimeOrder |-> tradesTimeOrder,
     longPosition |-> longPosition, shortPosition |-> shortPosition,
     longFresh |-> PositionCalculateMarginUsed(
                       PositionCalculateUnrealized(longPosition, tradeObjs, ask, bid),
                       tradeObjs, ask, bid),
     shortFresh |-> PositionCalculateMarginUsed(
                       PositionCalculateUnrealized(shortPosition, tradeObjs, ask, bid),
                       tradeObjs, ask, bid)]

\* openTrade without the Set on the registry
RegistrySet_Skipped(reg, id, trade) == reg

\* i.trades.Set(id, trade): an existing key is overwritten
RegistrySet(reg, id, trade) == MapSet(reg, id, trade)

\* i.tradesTimeOrder.Append(id), whether or not id is already open
IndexAppend(order, id) == SortedAppend(order, id)

\* closeTrade without the Delete on the ordered index
IndexDelete_Skipped(order, id) == order

\* i.tradesTimeOrder.Delete(id), before the registry is looked up
IndexDelete(order, id) == SortedDelete(order, id)

\* the side test of closeTrade turned round
ClosesLong_Flipped(t) == t.side # Long

\* trade.side == Long: the Position closeTrade takes the trade out of
ClosesLong(t) == t.side = Long

\* trade.leverage = i.leverage
BindLeverage(t) == [t EXCEPT !.leverage = "leverage"]

\* the binding of openTrade turned round: ask for Long, bid for Short
PriceCell_Swapped(side) == IF side = Short THEN "bid" ELSE "ask"

\* the cell openTrade points trade.currentPrice at: i.ask for a Short
\* trade, i.bid otherwise
PriceCell(side) == IF side = Short THEN "ask" ELSE "bid"

BindPrice(t, side) == [t EXCEPT !.currentPrice = PriceCell(side)]

\* the Trades a registry maps its identifiers to
RegistryTradesOf(reg) == {reg[k] : k \in DOMAIN reg}

\* a pointer no live object has
Fresh(objs) == CHOOSE t \in 1..(Cardinality(DOMAIN objs) + 1) : t \notin DOMAIN objs

Without(s, x) == SelectSeq(s, LAMBDA y : y # x)

openTrade(id, side, units, openPrice) ==
    /\ LET trade == Fresh(tradeObjs)
           reg == RegistrySet(trades, id, trade)
           lp == IF side = Short THEN longPosition
                 ELSE PositionOpenTrade(longPosition, trade)
           sp == IF side = Short THEN PositionOpenTrade(shortPosition, trade)
                 ELSE shortPosition
       IN /\ trades' = reg
          /\ tradesTimeOrder' = IndexAppend(tradesTimeOrder, id)
          /\ longPosition' = lp
          /\ shortPosition' = sp
          /\ tradeObjs' = Collect(MapSet(tradeObjs, trade,
                                         BindPrice(BindLeverage(
                                             newTrade(id, side, units, openPrice)),
                                             side)),
                                  reg, lp, sp)
          /\ openLog' = Append(IF id \in DOMAIN trades
                                THEN Without(openLog, trades[id])
                                ELSE openLog, trade)
    /\ pre' = IF id \in DOMAIN trades THEN NoPre ELSE Snapshot(id)
    /\ ret' = NoResult
    /\ UNCHANGED <<unrealizedNetProfit, unrealizedEffectiveProfit, marginUsed,
                   chargedFees, ask, bid, hedgeType, conc, thr>>

closeTrade(id) ==
    /\ LET order == IndexDelete(tradesTimeOrder, id)
       IN IF id \notin DOMAIN trades
          THEN /\ tradesTimeOrder' = order
               /\ ret' = Result("closeTrade", id, Warning)
               /\ UNCHANGED <<trades, tradeObjs, longPosition, shortPosition,
                              openLog>>
          ELSE LET trade == trades[id]
                   reg == MapDel(trades, id)
                   lp == IF ClosesLong(tradeObjs[trade])
                         THEN PositionCloseTrade(longPosition, trade)
                         ELSE longPosition
                   sp == IF ClosesLong(tradeObjs[trade])
                         THEN shortPosition
                         ELSE PositionCloseTrade(shortPosition, trade)
               IN /\ tradesTimeOrder' = order
                  /\ trades' = reg
                  /\ longPosition' = lp
                  /\ shortPosition' = sp
                  /\ tradeObjs' = Collect(tradeObjs, reg, lp, sp)
                  /\ openLog' = Without(openLog, trade)
                  /\ ret' = NoResult
    /\ pre' = IF pre.phase = "opened" /\ pre.id = id
              THEN [pre EXCEPT !.phase = "closed"] ELSE NoPre
    /\ UNCHANGED <<unrealizedNetProfit, unrealizedEffectiveProfit, marginUsed,
                   chargedFees, ask, bid, hedgeType, conc, thr>>

\* the NoHedge and FullHedge cases taken for one another
HedgeMargin_CasesSwapped(h, old, short, long) ==
    CASE h = FullHedge -> short + long
      [] h = NoHedge -> Abs(short - long)
      [] h = HalfHedge -> IF short > long THEN short ELSE long
      [] OTHER -> old

\* HalfHedge with the comparison turned round: the smaller margin
HedgeMargin_HalfTakesSmaller(h, old, short, long) ==
    CASE h = NoHedge -> short + long
      [] h = FullHedge -> Abs(short - long)
      [] h = HalfHedge -> IF short < long THEN short ELSE long
      [] OTHER -> old

\* an unrecognised policy treated as NoHedge
HedgeMargin_UnknownAsNoHedge(h, old, short, long) ==
    CASE h = FullHedge -> Abs(short - long)
      [] h = HalfHedge -> IF short > long THEN short ELSE long
      [] OTHER -> short + long

\* the instrument-level margin the switch on hedgeType assigns; an
\* unrecognised policy matches no case and the old value stays
HedgeMargin(h, old, short, long) ==
    CASE h = NoHedge -> short + long
      [] h = FullHedge -> Abs(short - long)
      [] h = HalfHedge -> IF short > long THEN short ELSE long
      [] OTHER -> old

\* the instrument's figures added to (+=) instead of assigned
CalcUnrealized_Accumulating(lp0, sp0, objs, a, b, net, eff, fees) ==
    LET sp == PositionCalculateUnrealized(sp0, objs, a, b)
        lp == PositionCalculateUnrealized(lp0, objs, a, b)
    IN [long |-> lp, short |-> sp,
        net |-> net + lp.unrealizedNetProfit + sp.unrealizedNetProfit,
        eff |-> eff + lp.unrealizedEffectiveProfit + sp.unrealizedEffectiveProfit,
        fees |-> fees + lp.chargedFees + sp.chargedFees]

\* the effective profit summed from the Positions' net profits
CalcUnrealized_EffectiveFromNet(lp0, sp0, objs, a, b, net, eff, fees) ==
    LET sp == PositionCalculateUnrealized(sp0, objs, a, b)
        lp == PositionCalculateUnrealized(lp0, objs, a, b)
    IN [long |-> lp, short |-> sp,
        net |-> lp.unrealizedNetProfit + sp.unrealizedNetProfit,
        eff |-> lp.unrealizedNetProfit + sp.unrealizedNetProfit,
        fees |-> lp.chargedFees + sp.chargedFees]

\* what calculateUnrealized leaves in the two Positions and the instrument
CalcUnrealized(lp0, sp0, objs, a, b, net, eff, fees) ==
    LET sp == PositionCalculateUnrealized(sp0, objs, a, b)
        lp == PositionCalculateUnrealized(lp0, objs, a, b)
    IN [long |-> lp, short |-> sp,
        net |-> lp.unrealizedNetProfit + sp.unrealizedNetProfit,
        eff |-> lp.unrealizedEffectiveProfit + sp.unrealizedEffectiveProfit,
        fees |-> lp.chargedFees + sp.chargedFees]

calculateUnrealized ==
    /\ LET r == CalcUnrealized(longPosition, shortPosition, tradeObjs, ask, bid,
                               unrealizedNetProfit, unrealizedEffectiveProfit,
                               chargedFees)
       IN /\ shortPosition' = r.short
          /\ longPosition' = r.long
          /\ unrealizedNetProfit' = r.net
          /\ unrealizedEffectiveProfit' = r.eff
          /\ chargedFees' = r.fees
    /\ ret' = NoResult
    /\ pre' = NoPre
    /\ UNCHANGED <<trades, tradesTimeOrder, tradeObjs, marginUsed, ask, bid,
                   hedgeType, openLog, conc, thr>>

calculateMarginUsed ==
    /\ LET sp == PositionCalculateMarginUsed(shortPosition, tradeObjs, ask, bid)
           lp == PositionCalculateMarginUsed(longPosition, tradeObjs, ask, bid)
       IN /\ shortPosition' = sp
          /\ longPosition' = lp
          /\ marginUsed' = HedgeMargin(hedgeType, marginUsed,
                                       sp.marginUsed, lp.marginUsed)
    /\ ret' = NoResult
    /\ pre' = NoPre
    /\ UNCHANGED <<trades, tradesTimeOrder, tradeObjs, unrealizedNetProfit,
                   unrealizedEffectiveProfit, chargedFees, ask, bid,
                   hedgeType, openLog, conc, thr>>

\* updatePrice recomputing the unrealized figures on every tick
updatePrice_Recomputing(tick) ==
    /\ ask' = tick.Ask
    /\ bid' = tick.Bid
    /\ LET r == CalcUnrealized(longPosition, shortPosition, tradeObjs,
                               tick.Ask, tick.Bid, unrealizedNetProfit,
                               unrealizedEffectiveProfit, chargedFees)
       IN /\ shortPosition' = r.short
          /\ longPosition' = r.long
          /\ unrealizedNetProfit' = r.net
          /\ unrealizedEffectiveProfit' = r.eff
          /\ chargedFees' = r.fees
    /\ ret' = NoResult
    /\ pre' = NoPre
    /\ UNCHANGED <<trades, tradesTimeOrder, tradeObjs, marginUsed,
                   hedgeType, openLog, conc, thr>>

updatePrice(tick) ==
    /\ ask' = tick.Ask
    /\ bid' = tick.Bid
    /\ ret' = NoResult
    /\ pre' = NoPre
    /\ UNCHANGED <<trades, tradesTimeOrder, tradeObjs, longPosition,
                   shortPosition, unrealizedNetProfit,
                   unrealizedEffectiveProfit, marginUsed, chargedFees,
                   hedgeType, openLog, conc, thr>>

\* the fee engine, a collaborator, charges a holding fee to an open trade
chargeFee(t) ==
    /\ t \in DOMAIN tradeObjs
    /\ tradeObjs' = [tradeObjs EXCEPT ![t].fees = @ + 1]
    /\ ret' = NoResult
    /\ pre' = NoPre
    /\ UNCHANGED <<trades, tradesTimeOrder, longPosition, shortPosition,
                   unrealizedNetProfit, unrealizedEffectiveProfit, marginUsed,
                   chargedFees, ask, bid, hedgeType, openLog, conc, thr>>

\* ------------------------------------------------------------ accessors
Read(op, arg, val) ==
    /\ ret' = Result(op, arg, val)
    /\ pre' = NoPre
    /\ UNCHANGED <<instr, conc, thr>>

TradeByOrder(index) ==
    Read("TradeByOrder", index, SortedGet(tradesTimeOrder, index))

TradesByAscendingOrder(tradesNumber) ==
    Read("TradesByAscendingOrder", tradesNumber,
         AscendIter(tradesTimeOrder, tradesNumber))

TradesByDescendingOrder(tradesNumber) ==
    Read("TradesByDescendingOrder", tradesNumber,
         DescendIter(tradesTimeOrder, tradesNumber))

UnrealizedNetProfit == Read("UnrealizedNetProfit", "", unrealizedNetProfit)

UnrealizedEffectiveProfit ==
    Read("UnrealizedEffectiveProfit", "", unrealizedEffectiveProfit)

MarginUsed == Read("MarginUsed", "", marginUsed)

ChargedFees == Read("ChargedFees", "", chargedFees)

\* ------------------------------------------------------------ specifications
TotalFees == SumOver(DOMAIN tradeObjs, [t \in DOMAIN tradeObjs |-> tradeObjs[t].fees])

\* the instrument driven by the execution engine, the price feed, the fee
\* engine and the reporting layer, one call at a time
Next ==
    \/ \E id \in Ids, o \in Orders :
          /\ Cardinality(DOMAIN tradeObjs) < MaxLive
          /\ openTrade(id, o.side, o.units, o.openPrice)
    \/ \E id \in Ids : closeTrade(id)
    \/ calculateUnrealized
    \/ calculateMarginUsed
    \/ \E tick \in Ticks : updatePrice(tick)
    \/ \E t \in DOMAIN tradeObjs :
          /\ TotalFees < MaxFee
          /\ chargeFee(t)
    \/ UnrealizedNetProfit
    \/ UnrealizedEffectiveProfit
    \/ MarginUsed
    \/ ChargedFees

Spec == Init /\ [][Next]_vars

\* the execution engine, the price feed and the two recomputes, without
\* the fee engine and the reporting layer
NextCore ==
    \/ \E id \in Ids, o \in Orders :
          /\ Cardinality(DOMAIN tradeObjs) < MaxLive
          /\ openTrade(id, o.side, o.units, o.openPrice)
    \/ \E id \in Ids : closeTrade(id)
    \/ calculateUnrealized
    \/ calculateMarginUsed
    \/ \E tick \in Ticks : updatePrice(tick)

SpecCore == Init /\ [][NextCore]_vars

\* the calls the unrealized figures depend on: the execution engine, the
\* price feed, the fee engine and the unrealized recompute
NextFees ==
    \/ \E id \in Ids, o \in Orders :
          /\ Cardinality(DOMAIN tradeObjs) < MaxLive
          /\ openTrade(id, o.side, o.units, o.openPrice)
    \/ \E id \in Ids : closeTrade(id)
    \/ calculateUnrealized
    \/ \E tick \in Ticks : updatePrice(tick)
    \/ \E t \in DOMAIN tradeObjs :
          /\ TotalFees < MaxFee
          /\ chargeFee(t)

SpecFees == Init /\ [][NextFees]_vars

\* an instrument configured with any hedge policy value
InitHedge ==
    \E h \in HedgeValues :
        /\ hedgeType = h
        /\ trades = << >>
        /\ tradesTimeOrder = newSortedTrades
        /\ tradeObjs = << >>
        /\ longPosition = newPosition(Long)
        /\ shortPosition = newPosition(Short)
        /\ unrealizedNetProfit = 0
        /\ unrealizedEffectiveProfit = 0
        /\ marginUsed = 0
        /\ chargedFees = 0
        /\ ask = 0
        /\ bid = 0
        /\ openLog = << >>
        /\ ret = NoResult
        /\ pre = NoPre
        /\ pcCalc = "idle"
        /\ pcRead = "idle"
        /\ seen = << >>
        /\ published = {<<0, 0, 0>>}
        /\ nCalc = 0
        /\ InitThreads

\* the calls the margin depends on, under every hedge policy value
NextMargin ==
    \/ \E id \in Ids, o \in Orders :
          /\ Cardinality(DOMAIN tradeObjs) < MaxLive
          /\ openTrade(id, o.side, o.units, o.openPrice)
    \/ \E id \in Ids : closeTrade(id)
    \/ calculateMarginUsed
    \/ \E tick \in Ticks : updatePrice(tick)
    \/ MarginUsed

SpecMargin == InitHedge /\ [][NextMargin]_vars

\* sequences of openTrade and closeTrade calls
NextTrades ==
    \/ \E id \in IndexIds, o \in Orders :
          /\ Cardinality(DOMAIN tradeObjs) < MaxIndexLive
          /\ openTrade(id, o.side, o.units, o.openPrice)
    \/ \E id \in IndexIds : closeTrade(id)

SpecTrades == Init /\ [][NextTrades]_vars

\* the trade lifecycle and the ordered traversals of the trade index
NextIndex ==
    \/ \E id \in IndexIds, o \in Orders :
          /\ Cardinality(DOMAIN tradeObjs) < MaxIndexLive
          /\ openTrade(id, o.side, o.units, o.openPrice)
    \/ \E id \in IndexIds : closeTrade(id)
    \/ \E index \in -1..MaxIndexLive : TradeByOrder(index)
    \/ \E n \in 0..MaxIndexLive : TradesByAscendingOrder(n)
    \/ \E n \in 0..MaxIndexLive : TradesByDescendingOrder(n)

SpecIndex == Init /\ [][NextIndex]_vars

\* trades opened and closed while the price feed ticks, with the unrealized
\* recompute, at the prices of the EUR/USD scenario
NextPrice ==
    \/ \E id \in Ids, o \in PriceOrders :
          /\ Cardinality(DOMAIN tradeObjs) < MaxLive
          /\ openTrade(id, o.side, o.units, o.openPrice)
    \/ \E id \in Ids : closeTrade(id)
    \/ \E tick \in PriceTicks : updatePrice(tick)
    \/ calculateUnrealized

SpecPrice == Init /\ [][NextPrice]_vars

\* ------------------------------------------------------------ threads
\* calculateUnrealized run by a thread of its own, one statement a step.
\* No method of the instrument acquires i.lock, so nothing orders these
\* steps against the reader's.
CalcStep(from, to) ==
    /\ pcCalc = from
    /\ pcCalc' = to
    /\ UNCHANGED <<trades, tradesTimeOrder, tradeObjs, marginUsed, ask, bid,
                   hedgeType, openLog, ret, pre, pcRead, seen, thr>>

CalcBegin ==
    /\ nCalc < MaxRecomputes
    /\ CalcStep("idle", "108")
    /\ nCalc' = nCalc + 1
    /\ UNCHANGED <<longPosition, shortPosition, unrealizedNetProfit,
                   unrealizedEffectiveProfit, chargedFees, published>>

CalcShort ==
    /\ CalcStep("108", "109")
    /\ shortPosition' = PositionCalculateUnrealized(shortPosition, tradeObjs, ask, bid)
    /\ UNCHANGED <<longPosition, unrealizedNetProfit, unrealizedEffectiveProfit,
                   chargedFees, published, nCalc>>

CalcLong ==
    /\ CalcStep("109", "111")
    /\ longPosition' = PositionCalculateUnrealized(longPosition, tradeObjs, ask, bid)
    /\ UNCHANGED <<shortPosition, unrealizedNetProfit, unrealizedEffectiveProfit,
                   chargedFees, published, nCalc>>

CalcNet ==
    /\ CalcStep("111", "112")
    /\ unrealizedNetProfit' =
           longPosition.unrealizedNetProfit + shortPosition.unrealizedNetProfit
    /\ UNCHANGED <<longPosition, shortPosition, unrealizedEffectiveProfit,
                   chargedFees, published, nCalc>>

CalcEff ==
    /\ CalcStep("112", "113")
    /\ unrealizedEffectiveProfit' =
           longPosition.unrealizedEffectiveProfit
               + shortPosition.unrealizedEffectiveProfit
    /\ UNCHANGED <<longPosition, shortPosition, unrealizedNetProfit,
                   chargedFees, published, nCalc>>

CalcFees ==
    /\ CalcStep("113", "idle")
    /\ chargedFees' = longPosition.chargedFees + shortPosition.chargedFees
    /\ published' = published \cup
           {<<unrealizedNetProfit, unrealizedEffectiveProfit, chargedFees'>>}
    /\ UNCHANGED <<longPosition, shortPosition, unrealizedNetProfit,
                   unrealizedEffectiveProfit, nCalc>>

\* a reporting thread calling the three accessors one after the other; each
\* value is kept with whether the instrument's figures were, when it was
\* read, the three that one completed recompute wrote
ReadStep(from, to, val) ==
    /\ pcRead = from
    /\ pcRead' = to
    /\ seen' = Append(seen,
           [val |-> val,
            whole |-> <<unrealizedNetProfit, unrealizedEffectiveProfit,
                        chargedFees>> \in published])
    /\ UNCHANGED <<instr, ret, pre, pcCalc, published, nCalc, thr>>

ReadNet == ReadStep("idle", "eff", unrealizedNetProfit)

ReadEff == ReadStep("eff", "fees", unrealizedEffectiveProfit)

ReadFees == ReadStep("fees", "done", chargedFees)

ReadAgain ==
    /\ pcRead = "done"
    /\ pcRead' = "idle"
    /\ seen' = << >>
    /\ UNCHANGED <<instr, ret, pre, pcCalc, published, nCalc, thr>>

\* the trade-lifecycle and price-feed threads make whole calls here, the
\* recompute and reporting threads interleave statement by statement
NextThreads ==
    \/ \E id \in ThreadIds, o \in ThreadOrders :
          /\ Cardinality(DOMAIN tradeObjs) < MaxThreadLive
          /\ openTrade(id, o.side, o.units, o.openPrice)
    \/ \E id \in ThreadIds : closeTrade(id)
    \/ \E tick \in Ticks : updatePrice(tick)
    \/ CalcBegin \/ CalcShort \/ CalcLong \/ CalcNet \/ CalcEff \/ CalcFees
    \/ ReadNet \/ ReadEff \/ ReadFees \/ ReadAgain

SpecThreads == Init /\ [][NextThreads]_vars

\* ------------------------------------------------------------ price feed
\* updatePrice run by the price-feed thread, one atomic store a step, beside
\* a thread that calls Ask() and then Bid().
FeedStep(from, to) ==
    /\ pcFeed = from
    /\ pcFeed' = to
    /\ UNCHANGED <<trades, tradesTimeOrder, tradeObjs, longPosition,
                   shortPosition, unrealizedNetProfit,
                   unrealizedEffectiveProfit, marginUsed, chargedFees,
                   hedgeType, openLog, ret, pre, conc, pcQuote, quote,
                   openv, prodv>>

\* i.ask.Store(tick.Ask)
StoreAsk(tick) ==
    /\ FeedStep("idle", "138")
    /\ ask' = tick.Ask
    /\ feedTick' = tick
    /\ stored' = [stored EXCEPT !.ask = @ \cup {tick.Ask}]
    /\ UNCHANGED bid

\* updatePrice returning without the second store
StoreBid_Skipped ==
    /\ FeedStep("138", "idle")
    /\ UNCHANGED <<ask, bid, feedTick, stored>>

\* i.bid.Store(tick.Bid), after which updatePrice returns
StoreBid ==
    /\ FeedStep("138", "idle")
    /\ bid' = feedTick.Bid
    /\ stored' = [stored EXCEPT !.bid = @ \cup {feedTick.Bid}]
    /\ UNCHANGED <<ask, feedTick>>

QuoteStep(from, to) ==
    /\ pcQuote = from
    /\ pcQuote' = to
    /\ UNCHANGED <<instr, ret, pre, conc, pcFeed, feedTick, stored, openv, prodv>>

\* Ask(): i.ask.Load()
LoadAsk ==
    /\ QuoteStep("idle", "bid")
    /\ quote' = [NoQuote EXCEPT !.ask = ask]

\* Bid(): i.bid.Load()
LoadBid ==
    /\ QuoteStep("bid", "done")
    /\ quote' = [quote EXCEPT !.bid = bid]

QuoteAgain ==
    /\ QuoteStep("done", "idle")
    /\ quote' = NoQuote

NextFeed ==
    \/ \E tick \in FeedTicks : StoreAsk(tick)
    \/ StoreBid
    \/ LoadAsk
    \/ LoadBid
    \/ QuoteAgain

SpecFeed == Init /\ [][NextFeed]_vars

\* ------------------------------------------------------------ open thread
\* openTrade run by the execution thread one statement a step, beside a
\* thread that looks trades up.  The execution thread is the only one that
\* opens and closes, so a closeTrade comes between two openTrade calls.
OpenStep(from, to) ==
    /\ pcOpen = from
    /\ pcOpen' = to
    /\ UNCHANGED <<unrealizedNetProfit, unrealizedEffectiveProfit, marginUsed,
                   chargedFees, ask, bid, hedgeType, ret, pre, conc, got,
                   feedv, prodv>>

\* trade := newTrade(...); i.trades.Set(id, trade)
OpenSet(id, side, units, openPrice) ==
    /\ OpenStep("idle", "72")
    /\ LET trade == Fresh(tradeObjs)
       IN /\ opening' = [id |-> id, side |-> side, trade |-> trade]
          /\ trades' = RegistrySet(trades, id, trade)
          /\ tradeObjs' = MapSet(tradeObjs, trade,
                                 newTrade(id, side, units, openPrice))
          /\ openLog' = Append(IF id \in DOMAIN trades
                                THEN Without(openLog, trades[id])
                                ELSE openLog, trade)
    /\ UNCHANGED <<tradesTimeOrder, longPosition, shortPosition>>

\* i.tradesTimeOrder.Append(id)
OpenAppend ==
    /\ OpenStep("72", "73")
    /\ tradesTimeOrder' = IndexAppend(tradesTimeOrder, opening.id)
    /\ UNCHANGED <<trades, tradeObjs, longPosition, shortPosition, openLog,
                   opening>>

\* trade.leverage = i.leverage
OpenLeverage ==
    /\ OpenStep("73", "75")
    /\ tradeObjs' = [tradeObjs EXCEPT ![opening.trade] = BindLeverage(@)]
    /\ UNCHANGED <<trades, tradesTimeOrder, longPosition, shortPosition,
                   openLog, opening>>

\* trade.currentPrice = i.ask, or i.bid
OpenPrice ==
    /\ OpenStep("75", "77")
    /\ tradeObjs' = [tradeObjs EXCEPT
                        ![opening.trade] = BindPrice(@, opening.side)]
    /\ UNCHANGED <<trades, tradesTimeOrder, longPosition, shortPosition,
                   openLog, opening>>

\* i.shortPosition.openTrade(trade), or i.longPosition.openTrade(trade)
OpenPosition ==
    /\ OpenStep("77", "idle")
    /\ LET lp == IF opening.side = Short THEN longPosition
                 ELSE PositionOpenTrade(longPosition, opening.trade)
           sp == IF opening.side = Short
                 THEN PositionOpenTrade(shortPosition, opening.trade)
                 ELSE shortPosition
       IN /\ longPosition' = lp
          /\ shortPosition' = sp
          /\ tradeObjs' = Collect(tradeObjs, trades, lp, sp)
    /\ opening' = NoOpening
    /\ UNCHANGED <<trades, tradesTimeOrder, openLog>>

\* what a reader finds in the Trade it was handed
Observed(trade) ==
    [trade |-> trade,
     leverage |-> tradeObjs[trade].leverage,
     currentPrice |-> tradeObjs[trade].currentPrice,
     held |-> trade \in longPosition.trades \cup shortPosition.trades]

\* Trade(id): the registry's Trade, or nil
Trade(id) ==
    /\ got' = IF id \in DOMAIN trades THEN Observed(trades[id]) ELSE NoTrade
    /\ UNCHANGED <<instr, ret, pre, conc, pcOpen, opening, feedv, prodv>>

\* Trade(TradeByOrder(index)): the Trade of an identifier the index yields
TradeOfOrder(index) == Trade(SortedGet(tradesTimeOrder, index))

NextOpen ==
    \/ \E id \in Ids, o \in Orders :
          /\ Cardinality(DOMAIN tradeObjs) < MaxLive
          /\ OpenSet(id, o.side, o.units, o.openPrice)
    \/ OpenAppend
    \/ OpenLeverage
    \/ OpenPrice
    \/ OpenPosition
    \/ \E id \in Ids :
          /\ pcOpen = "idle"
          /\ closeTrade(id)
    \/ \E id \in Ids : Trade(id)
    \/ \E index \in 0..MaxLive : TradeOfOrder(index)

SpecOpen == Init /\ [][NextOpen]_vars

\* ------------------------------------------------------------ Trades()
\* Trades() makes an unbuffered channel and starts a goroutine that sends
\* the registry's Trades on it and closes it.  A send completes only
\* together with a receive.  The registry is left alone while the goroutine
\* runs, so the entries to send are those of the call.
ProdStep ==
    UNCHANGED <<instr, ret, pre, conc, feedv, openv>>

\* ch := make(chan *Trade); go func() {...}(); return ch
Trades ==
    /\ pcProd \in {"idle", "done"}
    /\ consumer # "receiving"
    /\ pcProd' = IF RegistryTradesOf(trades) = {} THEN "196" ELSE "194"
    /\ pending' = RegistryTradesOf(trades)
    /\ wanted' = RegistryTradesOf(trades)
    /\ received' = {}
    /\ chClosed' = FALSE
    /\ consumer' = "receiving"
    /\ ProdStep

\* the goroutine ending without close(ch)
ProducerClose_Skipped ==
    /\ pcProd = "196"
    /\ pcProd' = "done"
    /\ UNCHANGED <<pending, wanted, chClosed, consumer, received>>
    /\ ProdStep

\* ch <- kv.Value.(*Trade), taken by a receive of the consumer
ProducerSend ==
    /\ pcProd = "194"
    /\ consumer = "receiving"
    /\ \E t \in pending :
           /\ pending' = pending \ {t}
           /\ received' = received \cup {t}
           /\ pcProd' = IF pending = {t} THEN "196" ELSE "194"
    /\ UNCHANGED <<wanted, chClosed, consumer>>
    /\ ProdStep

\* close(ch), the goroutine's last statement
ProducerClose ==
    /\ pcProd = "196"
    /\ pcProd' = "done"
    /\ chClosed' = TRUE
    /\ UNCHANGED <<pending, wanted, consumer, received>>
    /\ ProdStep

\* the consumer gives up the channel before it has seen it closed
ConsumerStop ==
    /\ consumer = "receiving"
    /\ ~chClosed
    /\ consumer' = "stopped"
    /\ UNCHANGED <<pcProd, pending, wanted, chClosed, received>>
    /\ ProdStep

\* the consumer's receive finds the channel closed
ConsumerDone ==
    /\ consumer = "receiving"
    /\ chClosed
    /\ consumer' = "idle"
    /\ UNCHANGED <<pcProd, pending, wanted, chClosed, received>>
    /\ ProdStep

NextProducer ==
    \/ \E id \in Ids, o \in Orders :
          /\ pcProd \in {"idle", "done"}
          /\ Cardinality(DOMAIN tradeObjs) < MaxLive
          /\ openTrade(id, o.side, o.units, o.openPrice)
    \/ \E id \in Ids :
          /\ pcProd \in {"idle", "done"}
          /\ closeTrade(id)
    \/ Trades
    \/ ProducerSend
    \/ ProducerClose
    \/ ConsumerStop
    \/ ConsumerDone

\* the Go scheduler runs a goroutine that can run: a send whose receiver
\* stays ready is completed, and the close is executed
SpecProducer ==
    /\ Init
    /\ [][NextProducer]_vars
    /\ WF_vars(ProducerSend)
    /\ WF_vars(ProducerClose)

\* ------------------------------------------------------------ claims
Count(order, id) == Cardinality({k \in 1..Len(order) : order[k] = id})

Aggregates == <<unrealizedNetProfit, unrealizedEffectiveProfit, marginUsed,
                chargedFees>>

FreshPosition(p) ==
    PositionCalculateMarginUsed(
        PositionCalculateUnrealized(p, tradeObjs, ask, bid), tradeObjs, ask, bid)

\* C1: after every openTrade and closeTrade call, unknown closes and opens of
\* an identifier that is still open included, the identifiers of the
\* registry are exactly the identifiers of the ordered index.
C1_SameIdentifiers == Range(tradesTimeOrder) = DOMAIN trades

\* an identifier was opened twice and then closed: nothing is registered,
\* and the Trade the second open replaced is still held by its Position
C1_Witness ==
    /\ trades = << >>
    /\ tradesTimeOrder = << >>
    /\ longPosition.trades \cup shortPosition.trades # {}

\* C2: every registry identifier occurs exactly once in the ordered index
\* and every index entry is a registry key, also after openTrade of an
\* identifier that is already open.
C2_ExactlyOnce ==
    /\ \A id \in DOMAIN trades : Count(tradesTimeOrder, id) = 1
    /\ Range(tradesTimeOrder) \subseteq DOMAIN trades

\* C3: a calculateMarginUsed call recomputes both Positions' margins and
\* leaves long + short under NoHedge, |short - long| under FullHedge and
\* the larger of the two under HalfHedge in the instrument's marginUsed.
C3_MarginByPolicy ==
    [][calculateMarginUsed =>
        LET l == longPosition'.marginUsed
            s == shortPosition'.marginUsed
        IN /\ longPosition' = PositionCalculateMarginUsed(longPosition, tradeObjs, ask, bid)
           /\ shortPosition' = PositionCalculateMarginUsed(shortPosition, tradeObjs, ask, bid)
           /\ hedgeType = NoHedge => marginUsed' = l + s
           /\ hedgeType = FullHedge => marginUsed' = IF s >= l THEN s - l ELSE l - s
           /\ hedgeType = HalfHedge => marginUsed' = IF s >= l THEN s ELSE l]_vars

\* under FullHedge, a long margin of 4 and a short margin of 3 net to 1
C3_Witness ==
    /\ hedgeType = FullHedge
    /\ longPosition.marginUsed = 4
    /\ shortPosition.marginUsed = 3
    /\ marginUsed = 1

\* C4: for every reachable pair of Position margins the instrument margin
\* under FullHedge is at most the one under HalfHedge, which is at most the
\* one under NoHedge.
C4_HedgeOrdering ==
    LET l == longPosition.marginUsed
        s == shortPosition.marginUsed
    IN /\ HedgeMargin(FullHedge, marginUsed, s, l) <= HedgeMargin(HalfHedge, marginUsed, s, l)
       /\ HedgeMargin(HalfHedge, marginUsed, s, l) <= HedgeMargin(NoHedge, marginUsed, s, l)

\* both Positions carry margin and the three policies give 1 < 4 < 7
C4_Witness ==
    /\ longPosition.marginUsed = 4
    /\ shortPosition.marginUsed = 3
    /\ HedgeMargin(FullHedge, marginUsed, 3, 4) = 1
    /\ HedgeMargin(NoHedge, marginUsed, 3, 4) = 7

\* C5: openTrade of an identifier that is not open, immediately followed by
\* closeTrade of it, leaves the registry, the ordered index, both Positions
\* (trade sets and stored figures) and both Positions' recomputed figures
\* as they were before the open.
C5_RoundTrip ==
    pre.phase = "closed" =>
        /\ trades = pre.trades
        /\ tradesTimeOrder = pre.tradesTimeOrder
        /\ longPosition = pre.longPosition
        /\ shortPosition = pre.shortPosition
        /\ FreshPosition(longPosition) = pre.longFresh
        /\ FreshPosition(shortPosition) = pre.shortFresh

\* a round trip completed beside a trade that stays open, at a live price
C5_Witness ==
    /\ pre.phase = "closed"
    /\ trades # << >>
    /\ bid > 0
    /\ FreshPosition(longPosition).unrealizedNetProfit
           + FreshPosition(shortPosition).unrealizedNetProfit # 0

\* C6: calculateUnrealized is idempotent: a second call right after a call
\* would write the very figures the first call left, in the instrument and
\* in both Positions.
C6_Idempotent ==
    [][calculateUnrealized =>
        LET again == CalcUnrealized(longPosition', shortPosition', tradeObjs',
                                    ask', bid', unrealizedNetProfit',
                                    unrealizedEffectiveProfit', chargedFees')
        IN /\ again.net = unrealizedNetProfit'
           /\ again.eff = unrealizedEffectiveProfit'
           /\ again.fees = chargedFees'
           /\ again.long = longPosition'
           /\ again.short = shortPosition']_vars

\* figures a recompute left, with a profit and a fee in them
C6_Witness ==
    /\ chargedFees > 0
    /\ unrealizedNetProfit # 0
    /\ unrealizedNetProfit = FreshPosition(longPosition).unrealizedNetProfit
                               + FreshPosition(shortPosition).unrealizedNetProfit

\* C7: closeTrade of an identifier the registry does not hold changes
\* nothing but the log: registry, ordered index, the Positions, the Trade
\* objects, the prices and the four aggregates stay as they are, and the
\* call returns after the warning.
C7_UnknownCloseNoOp ==
    [][\A id \in Ids :
         (id \notin DOMAIN trades /\ closeTrade(id)) =>
             /\ UNCHANGED instr
             /\ ret' = Result("closeTrade", id, Warning)]_vars

\* an unknown close was logged while a trade is open and figures are set
C7_Witness ==
    /\ ret.op = "closeTrade"
    /\ ret.val = Warning
    /\ trades # << >>
    /\ unrealizedNetProfit # 0
    /\ marginUsed # 0
    /\ longPosition.trades \cup shortPosition.trades # {trades[k] : k \in DOMAIN trades}

\* the identifiers of the open trades, in the order they were opened
OpenOrder == [k \in 1..Len(openLog) |-> tradeObjs[openLog[k]].id]

\* C8: with n trades open, TradesByAscendingOrder(count) yields the first
\* min(count, n) open identifiers in open order and TradesByDescendingOrder
\* (count) the last min(count, n) in reverse open order.
C8_BoundedTraversals ==
    LET n == Cardinality(DOMAIN trades)
    IN /\ ret.op = "TradesByAscendingOrder" =>
              ret.val = SubSeq(OpenOrder, 1, Min(ret.arg, n))
       /\ ret.op = "TradesByDescendingOrder" =>
              ret.val = SubSeq(Reverse(OpenOrder), 1, Min(ret.arg, n))

\* C10: only calculateUnrealized and calculateMarginUsed change the four
\* instrument aggregates; updatePrice, openTrade, closeTrade, the fee engine
\* and the read accessors leave them, and a read returns the stored figure.
C10_OnlyRecomputeWrites ==
    [][/\ (UNCHANGED Aggregates \/ calculateUnrealized \/ calculateMarginUsed)
       /\ ret'.op = "UnrealizedNetProfit" => ret'.val = unrealizedNetProfit
       /\ ret'.op = "UnrealizedEffectiveProfit" => ret'.val = unrealizedEffectiveProfit
       /\ ret'.op = "MarginUsed" => ret'.val = marginUsed
       /\ ret'.op = "ChargedFees" => ret'.val = chargedFees]_vars

\* a read returned a snapshot that a recompute would no longer produce
C10_Witness ==
    /\ ret.op = "UnrealizedNetProfit"
    /\ ret.val # 0
    /\ ret.val # FreshPosition(longPosition).unrealizedNetProfit
                   + FreshPosition(shortPosition).unrealizedNetProfit

\* C9: a recompute excludes the readers: whenever a read accessor returns,
\* the instrument's figures are those one completed recompute wrote, never
\* some written by a running calculateUnrealized beside others it has yet to
\* write, and the three figures a reader gets come from one completed
\* recompute.
C9_RecomputeExcludesReaders ==
    /\ \A k \in 1..Len(seen) : seen[k].whole
    /\ pcRead = "done" => <<seen[1].val, seen[2].val, seen[3].val>> \in published

\* the Trades the registry maps an identifier to: the currently-open trades
RegistryTrades == RegistryTradesOf(trades)

\* C11: calculateUnrealized leaves in the instrument's aggregates the sums
\* over exactly the trades of the registry: a trade that was closed, or whose
\* identifier the registry no longer maps to it, contributes nothing.
C11_OnlyOpenTrades ==
    [][calculateUnrealized =>
        LET net == SumOver(RegistryTrades,
                       [t \in RegistryTrades |-> TradeUnrealized(tradeObjs[t], ask, bid)])
            fees == SumOver(RegistryTrades,
                       [t \in RegistryTrades |-> tradeObjs[t].fees])
        IN /\ unrealizedNetProfit' = net
           /\ chargedFees' = fees
           /\ unrealizedEffectiveProfit' = net + fees]_vars

\* C12: every Trade a Position holds is held by that Position alone, the one
\* of its side, and is the Trade the registry maps its identifier to; every
\* registry Trade is held by the Position of its side.
C12_OnePositionAndRegistry ==
    /\ longPosition.trades \cap shortPosition.trades = {}
    /\ \A t \in longPosition.trades : tradeObjs[t].side = Long
    /\ \A t \in shortPosition.trades : tradeObjs[t].side = Short
    /\ \A t \in longPosition.trades \cup shortPosition.trades :
           /\ tradeObjs[t].id \in DOMAIN trades
           /\ trades[tradeObjs[t].id] = t
    /\ \A t \in RegistryTrades :
           t \in (IF tradeObjs[t].side = Long THEN longPosition.trades
                                              ELSE shortPosition.trades)

\* C13: openTrade binds a Long trade to the live bid cell and a Short trade
\* to the live ask cell by reference: after every later updatePrice(tick)
\* each Long trade sees tick.Bid and each Short trade tick.Ask as its current
\* price, and a Long trade's unrealized profit is (bid - openPrice) * units.
C13_LivePriceReference ==
    [][\A tick \in PriceTicks :
         updatePrice(tick) =>
             \A t \in DOMAIN tradeObjs' :
                 LET o == tradeObjs'[t]
                 IN /\ o.side = Long =>
                        /\ CurrentPrice(o, ask', bid') = tick.Bid
                        /\ TradeUnrealized(o, ask', bid')
                               = (tick.Bid - o.openPrice) * o.units
                    /\ o.side = Short =>
                        CurrentPrice(o, ask', bid') = tick.Ask]_vars

\* 1000 units Long opened at 1.1000, the tick 1.1050/1.1040 arrived, and the
\* recompute gave 4.0 (40000 in units of 0.0001)
C13_Witness ==
    /\ ask = 11050
    /\ bid = 11040
    /\ \E t \in longPosition.trades :
           /\ tradeObjs[t].units = 1000
           /\ tradeObjs[t].openPrice = 11000
           /\ tradeObjs[t].currentPrice = "bid"
           /\ TradeUnrealized(tradeObjs[t], ask, bid) = 40000
    /\ shortPosition.trades = {}
    /\ unrealizedNetProfit = 40000

\* C14: when hedgeType is none of FullHedge, NoHedge and HalfHedge,
\* calculateMarginUsed still recomputes both Positions' margins, assigns
\* nothing to the instrument's marginUsed, which keeps its value, and
\* reports no error.
C14_UnknownPolicyKeepsMargin ==
    [][(hedgeType \notin {FullHedge, NoHedge, HalfHedge} /\ calculateMarginUsed) =>
        /\ longPosition' = PositionCalculateMarginUsed(longPosition, tradeObjs, ask, bid)
        /\ shortPosition' = PositionCalculateMarginUsed(shortPosition, tradeObjs, ask, bid)
        /\ marginUsed' = marginUsed
        /\ ret' = NoResult]_vars

\* under an unknown policy both Positions carry a recomputed margin and the
\* instrument's margin is still the 0 it was constructed with
C14_Witness ==
    /\ hedgeType \notin {FullHedge, NoHedge, HalfHedge}
    /\ longPosition.marginUsed = 4
    /\ shortPosition.marginUsed = 3
    /\ marginUsed = 0

\* C15: after every completed calculateUnrealized the instrument's
\* unrealizedEffectiveProfit is unrealizedNetProfit + chargedFees, and
\* unrealizedNetProfit and chargedFees are each the sum of the long and the
\* short Position's figure.
C15_EffectiveIsNetPlusFees ==
    [][calculateUnrealized =>
        /\ unrealizedEffectiveProfit' = unrealizedNetProfit' + chargedFees'
        /\ unrealizedNetProfit' = longPosition'.unrealizedNetProfit
                                     + shortPosition'.unrealizedNetProfit
        /\ chargedFees' = longPosition'.chargedFees
                             + shortPosition'.chargedFees]_vars

\* both Positions hold a trade, a fee was charged, and the recomputed
\* effective profit differs from the net profit by it
C15_Witness ==
    /\ longPosition.trades # {}
    /\ shortPosition.trades # {}
    /\ chargedFees = 1
    /\ longPosition.chargedFees + shortPosition.chargedFees = 1
    /\ unrealizedNetProfit = longPosition.unrealizedNetProfit
                                + shortPosition.unrealizedNetProfit
    /\ unrealizedNetProfit # 0
    /\ unrealizedEffectiveProfit = unrealizedNetProfit + 1

\* C16: the ordered index lists the surviving identifiers in the order in
\* which they were opened, whatever was closed in between; TradeByOrder(k)
\* returns the k-th of them for 0 <= k < n and the empty string for any
\* other k.
C16_OpenOrderAndSentinel ==
    LET n == Cardinality(DOMAIN trades)
    IN /\ tradesTimeOrder = OpenOrder
       /\ ret.op = "TradeByOrder" =>
              ret.val = IF 0 <= ret.arg /\ ret.arg < n
                        THEN OpenOrder[ret.arg + 1] ELSE ""

\* C17: updatePrice stores ask and bid one after the other, each store
\* atomic and the pair not: every value Ask() or Bid() returns is one a tick
\* stored in that cell or the initial 0, and while no updatePrice is running
\* Ask() and Bid() return the values of the last tick.  (That a reader can
\* get ask and bid of different ticks is the state of C17_Witness.)
C17_PairNotAtomic ==
    [][/\ LoadAsk =>
           /\ quote'.ask \in stored.ask
           /\ pcFeed = "idle" => quote'.ask = feedTick.Ask
       /\ LoadBid =>
           /\ quote'.bid \in stored.bid
           /\ pcFeed = "idle" => quote'.bid = feedTick.Bid]_vars

\* a reader holds the ask of one tick and the bid of another
C17_Witness ==
    /\ pcQuote = "done"
    /\ \E t1, t2 \in FeedTicks :
           /\ t1 # t2
           /\ quote.ask = t1.Ask
           /\ quote.bid = t2.Bid

\* C18: with openTrade and readers running concurrently, every Trade a
\* reader obtains from the instrument already has its leverage reference and
\* its current-price reference bound and is already held by its Position.
C18_NoHalfConstructedTrade ==
    got # NoTrade =>
        /\ got.leverage # Nil
        /\ got.currentPrice # Nil
        /\ got.held

\* C19: the goroutine started by Trades() terminates if the consumer keeps
\* receiving: it ends having sent every registry entry and closed the
\* channel; if the consumer stops while the goroutine is blocked on a send,
\* the goroutine stays blocked on it for ever and the channel is never closed.
C19_ProducerTerminates ==
    /\ (pcProd \in {"194", "196"}) ~> (pcProd = "done" \/ consumer = "stopped")
    /\ [](pcProd = "done" => chClosed /\ pending = {} /\ received = wanted)
    /\ []((consumer = "stopped" /\ pcProd = "194") =>
             [](pcProd = "194" /\ ~chClosed))

\* the goroutine has ended after sending both registry entries
C19_Witness ==
    /\ pcProd = "done"
    /\ chClosed
    /\ Cardinality(wanted) = 2
    /\ received = wanted

\* C19 as stated: whenever the consumer stops receiving before the channel
\* is closed, the channel is never closed.
C19_StopBeforeClosureBlocks ==
    []((consumer = "stopped" /\ ~chClosed) => [](~chClosed))

====
